---- MODULE Spec2Model ----
(***************************************************************************)
(* A model of check_redis (src/check_redis_2.py): the Nagios probe that    *)
(* fetches a Redis INFO snapshot, builds a set of Check objects from the   *)
(* command line, resolves their values (Redis.check) and folds them into   *)
(* one status and report (NagiosReporter.process).                         *)
(*                                                                         *)
(* Python values are tagged records [t, n, d, s]:                          *)
(*   t = "none"   None                                                     *)
(*   t = "int"    the integer n                                            *)
(*   t = "float"  the float n/d (d > 0, lowest terms)                      *)
(*   t = "str"    the string s                                             *)
(*   t = "dict"   a per-database mapping; s = "keys" when it has a 'keys'  *)
(*                entry, whose value is n                                  *)
(* The result of a call is [exc, v]: exc = "" and the value v, or the name *)
(* of the exception it raised.                                             *)
(***************************************************************************)
EXTENDS Integers, Sequences, FiniteSets, TLC

VARIABLES
    server,       \* the Redis server: reachable or not, and its INFO reply
    args,         \* the parsed command line
    pc,           \* where main stands
    info,         \* Redis.info, the fetched snapshot
    checks,       \* the check set: name -> Check
    todo,         \* process: the sorted names still to visit
    status,       \* process: status
    feedback,     \* process: feedback
    performance,  \* process: performance
    output,       \* what has been printed
    rc,           \* the process exit code, -1 while running
    fault         \* the uncaught exception and where it was raised

vars == <<server, args, pc, info, checks, todo, status, feedback,
          performance, output, rc, fault>>

----------------------------------------------------------------------------
(* Bounds of the checked input space.                                      *)

\* Largest number of fields after the key in one --check-config spec.
MaxFields == 5
\* Largest 'keys' count of one database sub-resource.
MaxDbKeys == 2

----------------------------------------------------------------------------
(* Python values.                                                          *)

None == [t |-> "none", n |-> 0, d |-> 1, s |-> ""]
IntV(n) == [t |-> "int", n |-> n, d |-> 1, s |-> ""]
StrV(s) == [t |-> "str", n |-> 0, d |-> 1, s |-> s]
DictV(k) == [t |-> "dict", n |-> k, d |-> 1, s |-> "keys"]
DictNoKeys == [t |-> "dict", n |-> 0, d |-> 1, s |-> ""]

Abs(x) == IF x < 0 THEN -x ELSE x

RECURSIVE GCD(_, _)
GCD(a, b) == IF b = 0 THEN a ELSE GCD(b, a % b)

\* The float n/d, in lowest terms.
FloatV(n, d) ==
    LET g == GCD(Abs(n), d)
    IN [t |-> "float", n |-> n \div g, d |-> d \div g, s |-> ""]

Ok(v) == [exc |-> "", v |-> v]
Raise(e) == [exc |-> e, v |-> None]

IsNumber(v) == v.t \in {"int", "float"}

\* Python's ==, < and > on two numbers (int and float compare by value).
NumEq(a, b) == a.n * b.d = b.n * a.d
NumLess(a, b) == a.n * b.d < b.n * a.d

\* The decimal literals that occur in the inputs, with the number each
\* denotes; every other string is no number.
Literals ==
    { [s |-> "0", n |-> 0, d |-> 1, int |-> TRUE],
      [s |-> "1", n |-> 1, d |-> 1, int |-> TRUE],
      [s |-> "5", n |-> 5, d |-> 1, int |-> TRUE],
      [s |-> "7", n |-> 7, d |-> 1, int |-> TRUE],
      [s |-> "9", n |-> 9, d |-> 1, int |-> TRUE],
      [s |-> "4.5", n |-> 9, d |-> 2, int |-> FALSE] }

Literal(s) == CHOOSE l \in Literals : l.s = s

\* int(x): truncation toward zero of a float, the parse of an integer
\* literal, ValueError for any other string, TypeError for None or a dict.
PyInt(v) ==
    CASE v.t = "int" -> Ok(v)
      [] v.t = "float" ->
            Ok(IntV(IF v.n >= 0 THEN v.n \div v.d ELSE -((-v.n) \div v.d)))
      [] v.t = "str" ->
            IF \E l \in Literals : l.s = v.s /\ l.int
            THEN Ok(IntV(Literal(v.s).n))
            ELSE Raise("ValueError")
      [] OTHER -> Raise("TypeError")

\* float(x).
PyFloat(v) ==
    CASE v.t = "int" -> Ok(FloatV(v.n, 1))
      [] v.t = "float" -> Ok(v)
      [] v.t = "str" ->
            IF \E l \in Literals : l.s = v.s
            THEN Ok(FloatV(Literal(v.s).n, Literal(v.s).d))
            ELSE Raise("ValueError")
      [] OTHER -> Raise("TypeError")

----------------------------------------------------------------------------
(* Check and NagiosReporter constants.                                     *)

OK == 0
WARN == 1
ERROR == 2
UNKNOWN == 3

STATUS == [c \in {OK, WARN, ERROR, UNKNOWN} |->
             CASE c = OK -> "OK"
               [] c = WARN -> "WARNING"
               [] c = ERROR -> "CRITICAL"
               [] OTHER -> "UNKNOWN"]

\* Check.__init__
Check(key, forced) ==
    [key |-> key, value |-> None, warning_limit |-> None,
     error_limit |-> None, ascending |-> TRUE, minimum |-> None,
     maximum |-> None, forced |-> forced]

\* Check._evaluate with the comparisons >= 0 and <= 0.
evaluate_nonstrict(check, value, limit) ==
    IF value = None \/ limit = None THEN Ok(FALSE)
    ELSE LET f == PyFloat(value)
         IN IF f.exc # "" THEN [exc |-> f.exc, v |-> FALSE]
            ELSE LET result == f.v.n * limit.d - limit.n * f.v.d
                 IN Ok(IF check.ascending THEN result >= 0 ELSE result <= 0)

\* Check._evaluate: False without a value or a limit, else the sign of
\* float(value) - limit in the check's direction; float() may raise.
evaluate(check, value, limit) ==
    IF value = None \/ limit = None THEN Ok(FALSE)
    ELSE LET f == PyFloat(value)
         IN IF f.exc # "" THEN [exc |-> f.exc, v |-> FALSE]
            ELSE LET result == f.v.n * limit.d - limit.n * f.v.d
                 IN Ok(IF check.ascending THEN result > 0 ELSE result < 0)

is_warning(check) == evaluate(check, check.value, check.warning_limit)

is_error(check) == evaluate(check, check.value, check.error_limit)

----------------------------------------------------------------------------
(* Redis: the snapshot is a sequence of [k, v] entries in the mapping's    *)
(* iteration order, with distinct names.                                   *)

InfoKeys(inf) == {inf[i].k : i \in 1..Len(inf)}

InfoGet(inf, k) == (CHOOSE i \in 1..Len(inf) : inf[i].k = k)

\* self.info[k]: the value, or KeyError.
Lookup(inf, k) ==
    IF k \in InfoKeys(inf) THEN Ok(inf[InfoGet(inf, k)].v) ELSE Raise("KeyError")

\* float(self.info[k])
FloatOfInfo(inf, k) ==
    LET r == Lookup(inf, k)
    IN IF r.exc # "" THEN r ELSE PyFloat(r.v)

\* Redis._hit_ratio: hits / (hits + misses) as a float, None when the
\* denominator is zero; a missing or non-numeric counter raises.
hit_ratio(inf) ==
    LET h == FloatOfInfo(inf, "keyspace_hits")
        m == FloatOfInfo(inf, "keyspace_misses")
    IN IF h.exc # "" THEN h
       ELSE IF m.exc # "" THEN m
       ELSE LET den == FloatV(h.v.n * m.v.d + m.v.n * h.v.d, h.v.d * m.v.d)
            IN IF den.n = 0 THEN Ok(None)
               ELSE Ok(FloatV(h.v.n * den.d, h.v.d * den.n))

\* str.startswith('db') and str.startswith('total_keys_') on the names of
\* the model, and the name left after the prefix 'total_keys_'.
DbPrefixed == {"db0", "db1"}
TotalKeysPrefixed == {"total_keys_db0", "total_keys_db1"}
AfterTotalKeys(name) == IF name = "total_keys_db0" THEN "db0" ELSE "db1"

\* v.get('keys', 0) of a per-database mapping
GetKeys(v) == IF v.s = "keys" THEN v.n ELSE 0

\* The loop of Redis._total_keys(None) from entry i on: the first entry
\* named db* that is a mapping returns its key count (the return sits
\* inside the loop); no such entry falls through to the lookup of None.
RECURSIVE total_keys_loop(_, _)
total_keys_loop(inf, i) ==
    IF i > Len(inf) THEN Ok(None)
    ELSE IF inf[i].k \notin DbPrefixed \/ inf[i].v.t # "dict"
         THEN total_keys_loop(inf, i + 1)
         ELSE Ok(IntV(0 + GetKeys(inf[i].v)))

\* Redis._total_keys(db); db is None or the name of a sub-resource.
total_keys(inf, db) ==
    IF db = None THEN total_keys_loop(inf, 1)
    ELSE IF db.s \in InfoKeys(inf)
         THEN LET v == inf[InfoGet(inf, db.s)].v
              IN IF v.t # "dict" THEN Raise("TypeError")
                 ELSE IF v.s # "keys" THEN Raise("KeyError")
                 ELSE Ok(IntV(v.n))
         ELSE Ok(None)

\* Redis.get_value
get_value(inf, check_name) ==
    IF check_name \in InfoKeys(inf) THEN Lookup(inf, check_name)
    ELSE IF check_name = "hit_ratio" THEN hit_ratio(inf)
    ELSE IF check_name \in TotalKeysPrefixed
         THEN total_keys(inf, StrV(AfterTotalKeys(check_name)))
    ELSE IF check_name = "total_keys" THEN total_keys(inf, None)
    ELSE Ok(None)

\* The body of the loop of Redis.check for one check: the resolved value
\* coerced by int(), then float(), then kept as it is.
coerce(value) ==
    LET i == PyInt(value)
    IN IF i.exc = "" THEN i
       ELSE IF i.exc # "ValueError" THEN i
       ELSE LET f == PyFloat(value)
            IN IF f.exc = "" THEN f
               ELSE IF f.exc # "ValueError" THEN f
               ELSE Ok(value)

check_one(inf, check) ==
    LET r == get_value(inf, check.key)
    IN IF r.exc # "" THEN [exc |-> r.exc, v |-> check]
       ELSE IF r.v = None THEN [exc |-> "", v |-> check]
       ELSE LET c == coerce(r.v)
            IN IF c.exc # "" THEN [exc |-> c.exc, v |-> check]
               ELSE [exc |-> "", v |-> [check EXCEPT !.value = c.v]]


\* Redis.check: every check of the set resolved, or the exception of a
\* check whose resolution raised.
check_faults(inf, chk) ==
    {check_one(inf, chk[k]).exc : k \in DOMAIN chk} \ {""}

check_all(inf, chk) == [k \in DOMAIN chk |-> check_one(inf, chk[k]).v]

\* Redis.list_checks: the snapshot's names and "hit_ratio". keys() is a
\* list under Python 2; under Python 3 it is a view without append.
list_checks(inf, py) ==
    IF py = 3 THEN [exc |-> "AttributeError", v |-> <<>>]
    ELSE [exc |-> "", v |-> [i \in 1..Len(inf) |-> inf[i].k] \o <<"hit_ratio">>]

----------------------------------------------------------------------------
(* main: the command line.  A --check-config spec is a sequence of atoms,  *)
(* each a comma or a comma-free piece of text.                             *)

\* str.join: the fields with a comma between them (an empty field leaves
\* no atom).
RECURSIVE Join(_)
Join(fields) ==
    IF fields = <<>> THEN <<>>
    ELSE (IF Head(fields) = "" THEN <<>> ELSE <<Head(fields)>>)
         \o (IF Len(fields) = 1 THEN <<>> ELSE <<",">> \o Join(Tail(fields)))

\* c.split(',')
RECURSIVE Split(_)
Split(c) ==
    IF c = <<>> THEN <<"">>
    ELSE IF Head(c) = "," THEN <<"">> \o Split(Tail(c))
    ELSE IF Len(c) = 1 THEN <<Head(c)>>
    ELSE <<Head(c)>> \o Split(Tail(Tail(c)))

\* The body of the --check-config loop of main for one spec.
apply_config(chk, c) ==
    LET data == Split(c)
        key == data[1]
        n == Len(data)
        w == IF n >= 2 THEN PyFloat(StrV(data[2])) ELSE Ok(None)
        e == IF n >= 3 THEN PyFloat(StrV(data[3])) ELSE Ok(None)
        lo == IF n >= 3 THEN PyFloat(StrV(data[3])) ELSE Ok(None)
        hi == IF n >= 4 THEN PyFloat(StrV(data[4])) ELSE Ok(None)
        asc == IF n >= 6 /\ data[6] = "d" THEN FALSE ELSE TRUE
    IN IF key \notin DOMAIN chk THEN [exc |-> "", v |-> chk]
       ELSE IF w.exc # "" THEN [exc |-> w.exc, v |-> chk]
       ELSE IF e.exc # "" THEN [exc |-> e.exc, v |-> chk]
       ELSE IF lo.exc # "" THEN [exc |-> lo.exc, v |-> chk]
       ELSE IF hi.exc # "" THEN [exc |-> hi.exc, v |-> chk]
       ELSE [exc |-> "",
             v |-> [chk EXCEPT ![key] =
                      [@ EXCEPT !.warning_limit = w.v, !.error_limit = e.v,
                                !.minimum = lo.v, !.maximum = hi.v,
                                !.ascending = asc]]]

\* The --check-config loop from spec i on.
RECURSIVE config_loop(_, _, _)
config_loop(chk, cfgs, i) ==
    IF i > Len(cfgs) THEN [exc |-> "", v |-> chk]
    ELSE LET r == apply_config(chk, cfgs[i])
         IN IF r.exc # "" THEN r ELSE config_loop(r.v, cfgs, i + 1)

Range(seq) == {seq[i] : i \in 1..Len(seq)}

\* main: the check set from --include (forced) or from list_checks,
\* without the names of --exclude.
build_checks(a, inf, py) ==
    LET lc == list_checks(inf, py)
        names == IF a.include # <<>> THEN Range(a.include) ELSE Range(lc.v)
        kept == names \ Range(a.exclude)
    IN IF a.include = <<>> /\ lc.exc # "" THEN [exc |-> lc.exc, v |-> <<>>]
       ELSE [exc |-> "",
             v |-> [k \in kept |-> Check(k, a.include # <<>>)]]

----------------------------------------------------------------------------
(* NagiosReporter.process                                                  *)

\* The names of the model in ascending (Python string) order.
KeyOrder ==
    <<"db0", "db1", "hit_ratio", "keyspace_hits", "keyspace_misses",
      "redis_version", "total_keys", "total_keys_db0", "total_keys_db1",
      "used_memory">>

Rank(k) == CHOOSE i \in 1..Len(KeyOrder) : KeyOrder[i] = k

\* sorted(check_list.keys()): the keys of a mapping, each once
RECURSIVE Sorted(_)
Sorted(S) ==
    IF S = {} THEN <<>>
    ELSE LET m == CHOOSE x \in S : \A y \in S : Rank(x) <= Rank(y)
         IN <<m>> \o Sorted(S \ {m})

\* sorted(list): the names of a list in ascending order, a repeated name
\* kept as often as it occurs.
RECURSIVE SortedList(_)
SortedList(seq) ==
    IF seq = <<>> THEN <<>>
    ELSE LET i == CHOOSE x \in 1..Len(seq) :
                    \A y \in 1..Len(seq) : Rank(seq[x]) <= Rank(seq[y])
         IN <<seq[i]>> \o SortedList(SubSeq(seq, 1, i - 1)
                                      \o SubSeq(seq, i + 1, Len(seq)))

\* isinstance(check.value, str) and not check.forced
Suppressed(check) == check.value.t = "str" /\ ~check.forced

\* '' for an absent field of a performance entry, 'U' for an absent value
Shown(v, absent) == IF v = None THEN StrV(absent) ELSE v

PerfEntry(check) ==
    [label |-> check.key, value |-> Shown(check.value, "U"),
     warn |-> Shown(check.warning_limit, ""),
     crit |-> Shown(check.error_limit, ""),
     m |-> Shown(check.minimum, ""), M |-> Shown(check.maximum, "")]

Line(sev, check, limit, nl) ==
    [sev |-> sev, key |-> check.key, value |-> check.value,
     op |-> IF sev = "UNKNOWN" THEN "" ELSE IF check.ascending THEN ">" ELSE "<",
     limit |-> limit, nl |-> nl]

\* The loop body of process without its 'elif check.value is None' branch.
visit_absent_ok(acc, check) ==
    IF Suppressed(check) THEN [acc EXCEPT !.exc = ""]
    ELSE LET e == IF acc.status < ERROR THEN is_error(check)
                  ELSE [exc |-> "", v |-> FALSE]
             w == IF ~e.v /\ e.exc = "" /\ acc.status < WARN
                  THEN is_warning(check) ELSE [exc |-> "", v |-> FALSE]
             perf == Append(acc.performance, PerfEntry(check))
         IN IF e.exc # "" THEN [acc EXCEPT !.exc = e.exc]
            ELSE IF e.v
            THEN [exc |-> "", status |-> ERROR,
                  feedback |-> Append(acc.feedback,
                                Line("ERROR", check, check.error_limit, TRUE)),
                  performance |-> perf]
            ELSE IF w.exc # "" THEN [acc EXCEPT !.exc = w.exc]
            ELSE IF w.v
            THEN [exc |-> "", status |-> WARN,
                  feedback |-> Append(acc.feedback,
                                Line("WARNING", check, check.warning_limit, TRUE)),
                  performance |-> perf]
            ELSE [exc |-> "", status |-> OK, feedback |-> acc.feedback,
                  performance |-> perf]

\* One iteration of the loop of process, from the accumulated
\* [status, feedback, performance]: exc is the exception is_error or
\* is_warning raised, if any.  is_error is called only while status is
\* below ERROR, is_warning only while it is below WARN.
visit(acc, check) ==
    IF Suppressed(check) THEN [acc EXCEPT !.exc = ""]
    ELSE LET e == IF acc.status < ERROR THEN is_error(check)
                  ELSE [exc |-> "", v |-> FALSE]
             w == IF ~e.v /\ e.exc = "" /\ acc.status < WARN
                  THEN is_warning(check) ELSE [exc |-> "", v |-> FALSE]
             perf == Append(acc.performance, PerfEntry(check))
         IN IF e.exc # "" THEN [acc EXCEPT !.exc = e.exc]
            ELSE IF e.v
            THEN [exc |-> "", status |-> ERROR,
                  feedback |-> Append(acc.feedback,
                                Line("ERROR", check, check.error_limit, TRUE)),
                  performance |-> perf]
            ELSE IF w.exc # "" THEN [acc EXCEPT !.exc = w.exc]
            ELSE IF w.v
            THEN [exc |-> "", status |-> WARN,
                  feedback |-> Append(acc.feedback,
                                Line("WARNING", check, check.warning_limit, TRUE)),
                  performance |-> perf]
            ELSE IF check.value = None
            THEN [exc |-> "", status |-> acc.status,
                  feedback |-> Append(acc.feedback,
                                Line("UNKNOWN", check, None, FALSE)),
                  performance |-> perf]
            ELSE [exc |-> "", status |-> OK, feedback |-> acc.feedback,
                  performance |-> perf]

\* The status process returns: UNKNOWN when no iteration set it.
returned_status(st) == (IF st = -1 THEN UNKNOWN ELSE st) % 4

\* What process prints: the feedback, a newline, '|' and the performance
\* entries.
NoOutput == [kind |-> "", feedback |-> <<>>, perf |-> <<>>, names |-> <<>>]
Report(fb, perf) ==
    [kind |-> "report", feedback |-> fb, perf |-> perf, names |-> <<>>]
Listing(names) ==
    [kind |-> "list", feedback |-> <<>>, perf |-> <<>>, names |-> names]
ConnectError ==
    [kind |-> "connect", feedback |-> <<>>, perf |-> <<>>, names |-> <<>>]

\* The first word of the printed text ("UNKNOWN:" read as UNKNOWN).
FirstWord(out) == IF out.feedback = <<>> THEN "" ELSE out.feedback[1].sev

----------------------------------------------------------------------------
(* The inputs: command lines and INFO replies.                             *)

Entry(k, v) == [k |-> k, v |-> v]
Opt(k, v) == IF v = None THEN <<>> ELSE <<Entry(k, v)>>

DbValues == {DictV(n) : n \in 0..MaxDbKeys} \cup {DictNoKeys}
DbEntries == {Entry(k, v) : k \in DbPrefixed, v \in DbValues}
DbParts ==
    {<<>>} \cup {<<e>> : e \in DbEntries}
           \cup {<<e1, e2>> : e1 \in {e \in DbEntries : e.k = "db0"},
                              e2 \in {e \in DbEntries : e.k = "db1"}}
           \cup {<<e2, e1>> : e1 \in {e \in DbEntries : e.k = "db0"},
                              e2 \in {e \in DbEntries : e.k = "db1"}}

StatParts ==
    {Opt("keyspace_hits", h) \o Opt("keyspace_misses", m)
       \o <<Entry("used_memory", u)>> :
       h \in {None, IntV(0), IntV(4)}, m \in {None, IntV(0), IntV(1)},
       u \in {IntV(5), StrV("7"), StrV("4.5"), StrV("abc")}}

\* INFO replies for the resolution of values.
Snapshots == {d \o st : d \in DbParts, st \in StatParts}

\* The INFO reply against which thresholds are configured.
SnapAgg ==
    <<Entry("db0", DictV(2)), Entry("keyspace_hits", IntV(4)),
      Entry("keyspace_misses", IntV(1)), Entry("redis_version", StrV("abc")),
      Entry("used_memory", IntV(5))>>

\* INFO replies with a raw entry named hit_ratio.
SnapshotsRaw ==
    {<<Entry("hit_ratio", v)>> \o st : v \in {IntV(5), StrV("abc")},
                                       st \in StatParts}

Args(action, include, exclude, check_config) ==
    [action |-> action, include |-> include, exclude |-> exclude,
     check_config |-> check_config]

\* Command lines without thresholds.
ArgsResolve ==
    {Args("check", <<>>, e, <<>>) :
       e \in {<<>>, <<"db0", "db1">>, <<"db0", "db1", "hit_ratio">>,
              <<"db0", "db1", "hit_ratio", "keyspace_hits",
                "keyspace_misses", "used_memory">>}}
    \cup {Args("check", i, <<>>, <<>>) :
            i \in {<<"hit_ratio">>, <<"total_keys">>,
                   <<"total_keys_db0", "total_keys_db1">>,
                   <<"hit_ratio", "total_keys", "used_memory">>}}
    \cup {Args("check", <<"hit_ratio", "used_memory">>, <<"hit_ratio">>, <<>>),
          Args("list", <<>>, <<>>, <<>>)}

Tokens == {"1", "5", "9", "d"}
FieldSeqs == UNION {[1..n -> Tokens] : n \in 0..MaxFields}

\* Command lines with one spec of every shape, and with two short specs.
ArgsConfig ==
    {Args("check", <<"used_memory">>, <<>>, <<Join(<<"used_memory">> \o f)>>) :
       f \in FieldSeqs}
    \cup {Args("check", <<"used_memory">>, <<>>,
               <<Join(<<"used_memory">> \o f), Join(<<k>> \o g)>>) :
            f \in {<<"1">>, <<"9", "1">>},
            g \in {<<>>, <<"9">>, <<"d">>},
            k \in {"used_memory", "hit_ratio"}}

\* Thresholds below, at and above the values of SnapAgg, in both directions.
Limits ==
    {<<"1">>, <<"9", "1">>, <<"1", "1">>, <<"9", "9">>,
     <<"9", "9", "1", "1", "d">>}

NameOptions(name, fields) ==
    {[inc |-> <<>>, cfg |-> <<>>], [inc |-> <<name>>, cfg |-> <<>>]}
    \cup {[inc |-> <<name>>, cfg |-> <<Join(<<name>> \o f)>>] : f \in fields}

\* Command lines that include up to five checks, each with or without
\* thresholds.
ArgsAgg ==
    {Args("check", o1.inc \o o2.inc \o o3.inc \o o4.inc \o o5.inc, <<>>,
          o1.cfg \o o2.cfg \o o3.cfg \o o4.cfg \o o5.cfg) :
       o1 \in NameOptions("keyspace_hits", Limits),
       o2 \in NameOptions("redis_version", {<<"1">>}),
       o3 \in NameOptions("total_keys", Limits),
       o4 \in NameOptions("total_keys_db1", {<<"1", "1">>}),
       o5 \in NameOptions("used_memory", Limits)}

Up(stats) == [up |-> TRUE, stats |-> stats]
Down == [up |-> FALSE, stats |-> <<>>]

Scenarios ==
    {[args |-> a, server |-> Up(st)] : a \in ArgsResolve, st \in Snapshots}
    \cup {[args |-> a, server |-> Up(SnapAgg)] : a \in ArgsConfig \cup ArgsAgg}
    \cup {[args |-> a, server |-> Up(st)] : a \in ArgsResolve, st \in SnapshotsRaw}
    \cup {[args |-> a, server |-> Down] : a \in ArgsResolve}

----------------------------------------------------------------------------
(* The run of main.                                                        *)

NoFault == [exc |-> "", at |-> ""]

Init ==
    /\ \E sc \in Scenarios : args = sc.args /\ server = sc.server
    /\ pc = "connect"
    /\ info = <<>>
    /\ checks = <<>>
    /\ todo = <<>>
    /\ status = -1
    /\ feedback = <<>>
    /\ performance = <<>>
    /\ output = NoOutput
    /\ rc = -1
    /\ fault = NoFault

\* Redis.__init__ / Redis._get_info: the snapshot, or the diagnostic and
\* exit code UNKNOWN when the server cannot be reached.
GetInfo ==
    /\ pc = "connect"
    /\ IF server.up
       THEN /\ info' = server.stats
            /\ pc' = "main"
            /\ UNCHANGED <<output, rc>>
       ELSE /\ output' = ConnectError
            /\ rc' = UNKNOWN
            /\ pc' = "exit"
            /\ UNCHANGED info
    /\ UNCHANGED <<server, args, checks, todo, status, feedback, performance,
                   fault>>

\* main, action 'list': the sorted names of list_checks, one per line.
ListChecks ==
    /\ pc = "main"
    /\ args.action = "list"
    /\ \E py \in {2, 3} :
         LET lc == list_checks(info, py)
         IN IF lc.exc # ""
            THEN /\ fault' = [exc |-> lc.exc, at |-> "list_checks"]
                 /\ pc' = "fault"
                 /\ UNCHANGED <<output, rc>>
            ELSE /\ output' = Listing(SortedList(lc.v))
                 /\ rc' = 0
                 /\ pc' = "exit"
                 /\ UNCHANGED fault
    /\ UNCHANGED <<server, args, info, checks, todo, status, feedback,
                   performance>>

\* main, action 'check', up to the call of Redis.check: the check set is
\* built and the --check-config specs are applied to it.
Setup ==
    /\ pc = "main"
    /\ args.action = "check"
    /\ \E py \in {2, 3} :
         LET b == build_checks(args, info, py)
             c == config_loop(b.v, args.check_config, 1)
         IN IF b.exc # ""
            THEN /\ fault' = [exc |-> b.exc, at |-> "list_checks"]
                 /\ pc' = "fault"
                 /\ UNCHANGED checks
            ELSE IF c.exc # ""
            THEN /\ fault' = [exc |-> c.exc, at |-> "main"]
                 /\ pc' = "fault"
                 /\ UNCHANGED checks
            ELSE /\ checks' = c.v
                 /\ pc' = "setup"
                 /\ UNCHANGED fault
    /\ UNCHANGED <<server, args, info, todo, status, feedback, performance,
                   output, rc>>

\* Redis.check
RedisCheck ==
    /\ pc = "setup"
    /\ IF check_faults(info, checks) # {}
       THEN /\ \E e \in check_faults(info, checks) :
                 fault' = [exc |-> e, at |-> "Redis.check"]
            /\ pc' = "fault"
            /\ UNCHANGED checks
       ELSE /\ checks' = check_all(info, checks)
            /\ pc' = "checked"
            /\ UNCHANGED fault
    /\ UNCHANGED <<server, args, info, todo, status, feedback, performance,
                   output, rc>>

\* NagiosReporter.process, entry: status -1, nothing collected, the names
\* sorted.
ProcessStart ==
    /\ pc = "checked"
    /\ status' = -1
    /\ feedback' = <<>>
    /\ performance' = <<>>
    /\ todo' = Sorted(DOMAIN checks)
    /\ pc' = "process"
    /\ UNCHANGED <<server, args, info, checks, output, rc, fault>>

Acc == [exc |-> "", status |-> status, feedback |-> feedback,
        performance |-> performance]

\* NagiosReporter.process, one iteration of the loop.
ProcessVisit ==
    /\ pc = "process"
    /\ todo # <<>>
    /\ LET r == visit(Acc, checks[Head(todo)])
       IN IF r.exc # ""
          THEN /\ fault' = [exc |-> r.exc, at |-> "NagiosReporter.process"]
               /\ pc' = "fault"
               /\ UNCHANGED <<todo, status, feedback, performance>>
          ELSE /\ status' = r.status
               /\ feedback' = r.feedback
               /\ performance' = r.performance
               /\ todo' = Tail(todo)
               /\ UNCHANGED <<pc, fault>>
    /\ UNCHANGED <<server, args, info, checks, output, rc>>

\* NagiosReporter.process, after the loop: the report is printed and the
\* status returned.
ProcessReturn ==
    /\ pc = "process"
    /\ todo = <<>>
    /\ output' = Report(feedback, performance)
    /\ status' = returned_status(status)
    /\ pc' = "returned"
    /\ UNCHANGED <<server, args, info, checks, todo, feedback, performance,
                   rc, fault>>

\* main: sys.exit(rc)
SysExit ==
    /\ pc = "returned"
    /\ rc' = status
    /\ pc' = "exit"
    /\ UNCHANGED <<server, args, info, checks, todo, status, feedback,
                   performance, output, fault>>

Next ==
    \/ GetInfo
    \/ ListChecks
    \/ Setup
    \/ RedisCheck
    \/ ProcessStart
    \/ ProcessVisit
    \/ ProcessReturn
    \/ SysExit

Spec == Init /\ [][Next]_vars

----------------------------------------------------------------------------
(* Properties.                                                             *)

\* A check process evaluates: it is in the set and not suppressed.
Evaluated(c) == ~Suppressed(c)

\* The classification of one check on its own: ERROR, WARN, OK, or -1 when
\* its value is absent.
Classification(c) ==
    IF is_error(c).exc = "" /\ is_error(c).v THEN ERROR
    ELSE IF is_warning(c).exc = "" /\ is_warning(c).v THEN WARN
    ELSE IF c.value # None THEN OK
    ELSE -1

Classes == {Classification(checks[k]) : k \in {x \in DOMAIN checks : Evaluated(checks[x])}}

MaxSeverity ==
    IF Classes \subseteq {-1} THEN UNKNOWN
    ELSE CHOOSE s \in Classes : \A t \in Classes : t <= s

\* C1: the status process returns is the maximum severity over the
\* classifications of the evaluated checks (UNKNOWN when there is none).
C1_AggregateIsMaxSeverity == pc = "returned" => status = MaxSeverity

\* What the claim of strict thresholds says of one test with result r.
Strict(c, limit, r) ==
    /\ (r.exc = "" /\ r.v)
         <=> /\ c.value # None
             /\ limit # None
             /\ PyFloat(c.value).exc = ""
             /\ IF c.ascending THEN NumLess(limit, PyFloat(c.value).v)
                ELSE NumLess(PyFloat(c.value).v, limit)
    /\ (c.value = None \/ limit = None) => r = Ok(FALSE)

SomeLimits == {None, FloatV(1, 1), FloatV(5, 1), FloatV(9, 1)}

\* C2: is_error (is_warning) is true exactly when value and critical
\* (warning) limit are present and the value is strictly beyond the limit
\* in the check's direction; it is false whenever either is absent; and
\* neither test depends on the other limit.
C2_StrictThreshold ==
    \A k \in DOMAIN checks :
        LET c == checks[k]
        IN /\ Strict(c, c.error_limit, is_error(c))
           /\ Strict(c, c.warning_limit, is_warning(c))
           /\ \A l \in SomeLimits :
                /\ is_error([c EXCEPT !.warning_limit = l]) = is_error(c)
                /\ is_warning([c EXCEPT !.error_limit = l]) = is_warning(c)

\* A run that visited a check whose value equals both of its limits and
\* reported nothing for it.
C2_Witness ==
    /\ pc = "returned"
    /\ status = OK
    /\ feedback = <<>>
    /\ \E k \in DOMAIN checks :
         /\ checks[k].value = IntV(5)
         /\ checks[k].error_limit = FloatV(5, 1)
         /\ checks[k].warning_limit = FloatV(5, 1)

\* C3: the printed report begins with the status word of the exit code.
C3_StatusWordMatchesExit ==
    (pc = "exit" /\ output.kind = "report") => FirstWord(output) = STATUS[rc]

\* Field j of a split spec as a limit: absent when the spec is shorter.
Field(data, j) ==
    IF Len(data) >= j THEN PyFloat(StrV(data[j])).v ELSE None

LastFor(i) ==
    \A j \in (i + 1)..Len(args.check_config) :
        Split(args.check_config[j])[1] # Split(args.check_config[i])[1]

\* C4: after the specs are applied, a check carries the fields of its
\* (last) spec in the order key,warning,critical,direction,min,max.
C4_ConfigFieldsPositional ==
    pc = "setup" =>
      \A i \in 1..Len(args.check_config) :
        LET data == Split(args.check_config[i])
        IN (data[1] \in DOMAIN checks /\ LastFor(i)) =>
             LET c == checks[data[1]]
             IN /\ c.warning_limit = Field(data, 2)
                /\ c.error_limit = Field(data, 3)
                /\ c.ascending = ~(Len(data) >= 4 /\ data[4] = "d")
                /\ c.minimum = Field(data, 5)
                /\ c.maximum = Field(data, 6)

Counter(k) == info[InfoGet(info, k)].v

\* C5: the resolved hit_ratio is hits / (hits + misses), and absent when
\* both counters are 0.
C5_HitRatioValue ==
    ( /\ pc = "checked"
      /\ "hit_ratio" \in DOMAIN checks
      /\ "hit_ratio" \notin InfoKeys(info)
      /\ {"keyspace_hits", "keyspace_misses"} \subseteq InfoKeys(info) )
    => LET h == Counter("keyspace_hits").n
           m == Counter("keyspace_misses").n
           v == checks["hit_ratio"].value
       IN IF h + m = 0 THEN v = None
          ELSE IsNumber(v) /\ NumEq(v, [n |-> h, d |-> h + m])

RECURSIVE SumKeys(_, _)
SumKeys(inf, i) ==
    IF i > Len(inf) THEN 0
    ELSE (IF inf[i].k \in DbPrefixed /\ inf[i].v.t = "dict"
          THEN GetKeys(inf[i].v) ELSE 0) + SumKeys(inf, i + 1)

\* C6: the resolved total_keys is the sum of the 'keys' counts of all db*
\* sub-resources of the snapshot.
C6_TotalKeysSum ==
    ( /\ pc = "checked"
      /\ "total_keys" \in DOMAIN checks
      /\ "total_keys" \notin InfoKeys(info) )
    => LET v == checks["total_keys"].value
       IN IsNumber(v) /\ NumEq(v, IntV(SumKeys(info, 1)))

\* A check that reaches a classification: evaluated, with a value.
Conclusive(c) == Evaluated(c) /\ c.value # None

\* C7: process returns UNKNOWN exactly when no check of the set is
\* conclusive, and the visit of a check without a value leaves the status
\* as it was.
C7_UnknownIffInconclusive ==
    /\ [](pc = "returned" =>
            (status = UNKNOWN <=> \A k \in DOMAIN checks : ~Conclusive(checks[k])))
    /\ [][(pc = "process" /\ pc' = "process" /\ todo # <<>>
             /\ checks[Head(todo)].value = None) => status' = status]_vars

\* A run that returned UNKNOWN after visiting a check without a value.
C7_Witness ==
    /\ pc = "returned"
    /\ status = UNKNOWN
    /\ \E i \in 1..Len(feedback) : feedback[i].sev = "UNKNOWN"
    /\ \E k \in DOMAIN checks : checks[k].warning_limit # None

\* C8: without --include the check set is the snapshot's names, hit_ratio
\* and total_keys, without the excluded names.
C8_DefaultCheckSet ==
    (pc = "setup" /\ args.include = <<>>) =>
      DOMAIN checks =
        (InfoKeys(info) \cup {"hit_ratio", "total_keys"}) \ Range(args.exclude)

Triggered(k) ==
    /\ Evaluated(checks[k])
    /\ \/ is_error(checks[k]).exc = "" /\ is_error(checks[k]).v
       \/ is_warning(checks[k]).exc = "" /\ is_warning(checks[k]).v

IsTriggerLine(l) == l.sev \in {"ERROR", "WARNING"}

LineKeys(fb) == [i \in 1..Len(fb) |-> fb[i].key]

\* C9: the feedback holds one ERROR or WARNING line for every evaluated
\* check that is critical or warning, in the order of the names.
C9_LineForEveryTriggered ==
    pc = "returned" =>
      LineKeys(SelectSeq(feedback, IsTriggerLine))
        = SelectSeq(Sorted(DOMAIN checks), Triggered)

\* C10: neither Redis.check nor NagiosReporter.process ends in an uncaught
\* exception.
C10_NoUncaughtFault ==
    ~(pc = "fault" /\ fault.at \in {"Redis.check", "NagiosReporter.process"})

====
